---- MODULE Spec2Model ----
(***************************************************************************)
(* TaskDatabase (src/database/database.js) over the tasks table of        *)
(* schema.sql (src/unnamed/part_000, lines 698-725).                       *)
(*                                                                         *)
(* JavaScript values are records: Undef, Null and Str(s).  The text of a   *)
(* title or a description is a sequence of one-character strings, so that  *)
(* trim() and length are computed; priority, status and due_date strings   *)
(* are atoms.  A stored column holds Null or Str(s).                       *)
(*                                                                         *)
(* ProjectFlowIntegration (src/unnamed/part_000, lines 1-252) is the       *)
(* adapter between the store and the snapshot kept in localStorage under   *)
(* 'projectflow_tasks'; its callers are processes with a position each.    *)
(***************************************************************************)
EXTENDS Integers, Sequences, FiniteSets, TLC

VARIABLES
    db,            \* this.db: "null", or the sqlite3 handle: "opening", "open",
                   \* "failed" (it never opened) or "closed"
    isConnected,   \* this.isConnected
    connectState,  \* the latest connect(): "idle", "opening", "exec", "execOk",
                   \* "execErr", "resolved" or "rejected"
    closeState,    \* the latest close() since that connect(): "idle", "closing",
                   \* "closeOk", "closeErr", "resolved" or "rejected"
    tableExists,   \* the database file holds the tasks table (and its trigger)
    tasks,         \* the rows of the tasks table, by task_id
    seq,           \* sqlite_sequence: the largest task_id ever assigned
    clock,         \* CURRENT_TIMESTAMP, in seconds
    last,          \* the latest store operation: its call and how it settled
    returned,      \* the task_ids createTask has resolved with so far
    isInitialized, \* ProjectFlowIntegration.isInitialized
    snapshot,      \* localStorage.getItem('projectflow_tasks')
    calls          \* each caller's call in flight: its position and its locals

\* The variables of the adapter and of its callers.
avars == <<isInitialized, snapshot, calls>>

vars == <<db, isConnected, connectState, closeState, tableExists, tasks, seq,
          clock, last, returned, isInitialized, snapshot, calls>>

(***************************************************************************)
(* Bounds of the model.                                                    *)
(***************************************************************************)
MaxId == 2
MaxClock == 1

\* The title limit of validateTask.
TitleLimit == 255

(***************************************************************************)
(* JavaScript values.                                                      *)
(***************************************************************************)
Undef == [t |-> "undefined"]
Null == [t |-> "null"]
Str(s) == [t |-> "string", v |-> s]

Num(n) == [t |-> "number", v |-> n]

\* A string is truthy unless it is empty and a number unless it is 0;
\* undefined and null are falsy.
Truthy(x) ==
    \/ x.t = "string" /\ Len(x.v) > 0
    \/ x.t = "number" /\ x.v # 0

\* a || b
OrElse(a, b) == IF Truthy(a) THEN a ELSE b

Rep(c, n) == [i \in 1..n |-> c]

SetMax(S) == CHOOSE m \in S : \A k \in S : m >= k

\* String.prototype.trim over the one whitespace character of the model:
\* the text from its first to its last character that is not whitespace.
trim(s) ==
    IF \A i \in 1..Len(s) : s[i] = " " THEN <<>>
    ELSE LET first == CHOOSE i \in 1..Len(s) :
                         s[i] # " " /\ \A j \in 1..(i - 1) : s[j] = " "
             final == CHOOSE i \in 1..Len(s) :
                         s[i] # " " /\ \A j \in (i + 1)..Len(s) : s[j] = " "
         IN  SubSeq(s, first, final)

PRIORITIES == {"high", "medium", "low"}
STATUSES == {"pending", "completed"}

\* The date strings of the model, in the order SQLite compares text: none
\* of them reads as a number, so the due_date column keeps them as text.
DateStrings == <<"03/01/2025", "2025-01-20", "2025-02-15", "soon">>

NaN == -1

\* Date.parse: the day of 2025 the string names, or NaN.
DateParse(d) ==
    CASE d = "2025-01-20" -> 20
      [] d = "2025-02-15" -> 46
      [] d = "03/01/2025" -> 60
      [] OTHER -> NaN

\* Those Date.parse reads as a date.
ParsableDates ==
    {DateStrings[i] : i \in {j \in DOMAIN DateStrings : DateParse(DateStrings[j]) # NaN}}

TextRank(d) == CHOOSE i \in 1..Len(DateStrings) : DateStrings[i] = d

\* date('now') throughout the seconds the model's clock covers.
Today == "2025-01-20"

(***************************************************************************)
(* validateTask: the list of the rules a payload violates, in the order    *)
(* the code pushes them.                                                   *)
(***************************************************************************)
TitleRequired(task) ==
    ~Truthy(task.title) \/ Len(trim(task.title.v)) = 0

\* The length test off by one: a title of 256 characters passes.
TitleTooLongOffByOne(task) ==
    Truthy(task.title) /\ Len(task.title.v) > TitleLimit + 1

TitleTooLong(task) ==
    Truthy(task.title) /\ Len(task.title.v) > TitleLimit

PriorityInvalid(task) ==
    Truthy(task.priority) /\ task.priority.v \notin PRIORITIES

StatusInvalid(task) ==
    Truthy(task.status) /\ task.status.v \notin STATUSES

DueDateInvalid(task) ==
    Truthy(task.due_date) /\ task.due_date.v \notin ParsableDates

\* A validation that stops at the first rule violated.
validateTaskFirstOnly(task) ==
    IF TitleRequired(task) THEN <<"Title is required">>
    ELSE IF TitleTooLong(task) THEN <<"Title must be less than 255 characters">>
    ELSE IF PriorityInvalid(task) THEN <<"Priority must be high, medium, or low">>
    ELSE IF StatusInvalid(task) THEN <<"Status must be pending or completed">>
    ELSE IF DueDateInvalid(task) THEN <<"Due date must be a valid date">>
    ELSE <<>>

validateTask(task) ==
       (IF TitleRequired(task) THEN <<"Title is required">> ELSE <<>>)
    \o (IF TitleTooLong(task)
          THEN <<"Title must be less than 255 characters">> ELSE <<>>)
    \o (IF PriorityInvalid(task)
          THEN <<"Priority must be high, medium, or low">> ELSE <<>>)
    \o (IF StatusInvalid(task)
          THEN <<"Status must be pending or completed">> ELSE <<>>)
    \o (IF DueDateInvalid(task)
          THEN <<"Due date must be a valid date">> ELSE <<>>)

(***************************************************************************)
(* schema.sql: the constraints of the tasks table.  A CHECK fails only     *)
(* when its expression is false: x IN (...) is NULL for a NULL x, and the  *)
(* row is accepted.                                                        *)
(***************************************************************************)
CheckPriority(row) ==
    row.priority = Null \/ (row.priority.t = "string" /\ row.priority.v \in PRIORITIES)

CheckStatus(row) ==
    row.status = Null \/ (row.status.t = "string" /\ row.status.v \in STATUSES)

NotNullTitle(row) == row.title # Null

RowAccepted(row) == NotNullTitle(row) /\ CheckPriority(row) /\ CheckStatus(row)

\* INTEGER PRIMARY KEY without AUTOINCREMENT: one more than the largest
\* task_id the table holds now.
NextRowIdReusing == SetMax({0} \cup DOMAIN tasks) + 1

\* task_id INTEGER PRIMARY KEY AUTOINCREMENT: one more than the largest
\* task_id the table has ever held.
NextRowId == SetMax({seq} \cup DOMAIN tasks) + 1

\* update_tasks_updated_at: AFTER UPDATE, FOR EACH ROW.
Trigger(rows, id) == [rows EXCEPT ![id].updated_at = clock]

(***************************************************************************)
(* How an operation settles.                                               *)
(***************************************************************************)
NoValue == [kind |-> "none"]

\* op, id and task are the call (for searchTasks, task holds the term); at is
\* how far connect() and close() had come when it was made; issued tells
\* whether a statement was handed to the driver; ok, err, rules and value
\* are the promise's outcome.
Settled(op, id, task, issued, ok, err, rules, value) ==
    [op |-> op, id |-> id, task |-> task, at |-> <<connectState, closeState>>,
     issued |-> issued, ok |-> ok, err |-> err, rules |-> rules, value |-> value]

Rejected(op, id, task, issued, err) ==
    Settled(op, id, task, issued, FALSE, err, <<>>, NoValue)

Resolved(op, id, task, value) ==
    Settled(op, id, task, TRUE, TRUE, "", <<>>, value)

NoTask == [title |-> Undef, description |-> Undef, due_date |-> Undef,
           priority |-> Undef, status |-> Undef]

\* The statement reaches an open handle whose file holds the table.
Usable == db = "open" /\ tableExists

\* The handle has an open, an exec or a close queued that has not run yet.
\* The driver holds every later statement back until it has, so a statement
\* issued now is one that runs after it: the model lets it run then.
Busy == connectState \in {"opening", "exec"} \/ closeState = "closing"

\* No connect() or close() is awaiting its callback.
Quiet ==
    /\ connectState \in {"idle", "resolved", "rejected"}
    /\ closeState \in {"idle", "resolved", "rejected"}

Callers == {"A", "B"}

\* A task of ProjectFlow none of whose fields is given.
NoData == [title |-> Undef, description |-> Undef, dueDate |-> Undef,
           priority |-> Undef, status |-> Undef]

\* A caller without a call in flight, and nothing known of an earlier one.
Idle ==
    [pc |-> "idle", op |-> "none", id |-> 0, data |-> NoData, rows |-> <<>>,
     entries |-> <<>>, i |-> 0, log |-> <<>>, ok |-> FALSE, err |-> ""]

\* The store after construction.
InitStore ==
    /\ db = "null"
    /\ isConnected = FALSE
    /\ connectState = "idle"
    /\ closeState = "idle"
    /\ tableExists = FALSE
    /\ tasks = <<>>
    /\ seq = 0
    /\ clock = 0
    /\ last = Rejected("none", 0, NoTask, FALSE, "")
    /\ returned = {}

\* The store and the adapter after construction, and no snapshot.
Init ==
    /\ InitStore
    /\ isInitialized = FALSE
    /\ snapshot = Null
    /\ calls = [c \in Callers |-> Idle]

(***************************************************************************)
(* connect(), initializeSchema() and close().                              *)
(***************************************************************************)
\* connect(): the directory is made when missing (a throw rejects) and the
\* handle is created; its callback comes later.
connect(threw) ==
    /\ Quiet
    /\ db \in {"null", "failed", "closed"}
    /\ closeState' = "idle"
    /\ IF threw
         THEN /\ connectState' = "rejected"
              /\ db' = db
         ELSE /\ connectState' = "opening"
              /\ db' = "opening"
    /\ UNCHANGED <<isConnected, tableExists, tasks, seq, clock, last, returned>>

\* The callback of new sqlite3.Database: on an error connect() rejects; else
\* isConnected is set and initializeSchema() reads schema.sql (a throw
\* rejects) and hands it to db.exec.
connectOpened(err, readThrew) ==
    /\ connectState = "opening"
    /\ IF err
         THEN /\ db' = "failed"
              /\ connectState' = "rejected"
              /\ isConnected' = isConnected
         ELSE /\ db' = "open"
              /\ isConnected' = TRUE
              /\ connectState' = IF readThrew THEN "rejected" ELSE "exec"
    /\ UNCHANGED <<closeState, tableExists, tasks, seq, clock, last, returned>>

\* The driver runs schema.sql: CREATE TABLE IF NOT EXISTS and the trigger.
execRuns(err) ==
    /\ connectState = "exec"
    /\ connectState' = IF err THEN "execErr" ELSE "execOk"
    /\ tableExists' = IF err THEN tableExists ELSE TRUE
    /\ UNCHANGED <<db, isConnected, closeState, tasks, seq, clock, last, returned>>

\* The callback of db.exec settles initializeSchema() and with it connect().
execCallback ==
    /\ connectState \in {"execOk", "execErr"}
    /\ connectState' = IF connectState = "execOk" THEN "resolved" ELSE "rejected"
    /\ UNCHANGED <<db, isConnected, closeState, tableExists, tasks, seq, clock,
                   last, returned>>

\* close(): without a handle it resolves at once; else db.close is queued.
close ==
    /\ Quiet
    /\ db # "failed"
    /\ closeState' = IF db = "null" THEN "resolved" ELSE "closing"
    /\ UNCHANGED <<db, isConnected, connectState, tableExists, tasks, seq, clock,
                   last, returned>>

\* The driver closes the handle; a handle that is closed already, or one
\* that cannot be closed now, gives an error and stays as it is.
closeRuns(err) ==
    /\ closeState = "closing"
    /\ IF db = "open" /\ ~err
         THEN /\ db' = "closed"
              /\ closeState' = "closeOk"
         ELSE /\ db' = db
              /\ closeState' = "closeErr"
    /\ UNCHANGED <<isConnected, connectState, tableExists, tasks, seq, clock,
                   last, returned>>

\* The callback of db.close: on an error close() rejects; else isConnected
\* is cleared and close() resolves.
closeCallback ==
    /\ closeState \in {"closeOk", "closeErr"}
    /\ IF closeState = "closeOk"
         THEN /\ isConnected' = FALSE
              /\ closeState' = "resolved"
         ELSE /\ isConnected' = isConnected
              /\ closeState' = "rejected"
    /\ UNCHANGED <<db, connectState, tableExists, tasks, seq, clock, last,
                   returned>>

\* Time passes.
Tick ==
    /\ clock < MaxClock
    /\ clock' = clock + 1
    /\ UNCHANGED <<db, isConnected, connectState, closeState, tableExists, tasks,
                   seq, last, returned>>

(***************************************************************************)
(* The store operations.  Each is one step: the call, the statement and    *)
(* its callback.  A caller makes none while the handle is Busy and         *)
(* isConnected is set (see Busy).  An operation leaves the variables of    *)
(* the adapter to the step that makes it.                                  *)
(***************************************************************************)
Callable == ~(isConnected /\ Busy)

Columns == {"title", "description", "due_date", "priority", "status"}

\* updated_at with a fixed default instead of CURRENT_TIMESTAMP.
InsertedRowFixedUpdatedAt(id, task) ==
    [task_id |-> id,
     title |-> Str(trim(task.title.v)),
     description |-> OrElse(task.description, Null),
     due_date |-> OrElse(task.due_date, Null),
     priority |-> OrElse(task.priority, Str("medium")),
     status |-> OrElse(task.status, Str("pending")),
     created_at |-> clock,
     updated_at |-> 0]

\* The row INSERT builds from params (lines 142-148) and the defaults of
\* created_at and updated_at.
InsertedRow(id, task) ==
    [task_id |-> id,
     title |-> Str(trim(task.title.v)),
     description |-> OrElse(task.description, Null),
     due_date |-> OrElse(task.due_date, Null),
     priority |-> OrElse(task.priority, Str("medium")),
     status |-> OrElse(task.status, Str("pending")),
     created_at |-> clock,
     updated_at |-> clock]

\* The record createTask resolves with: { task_id, ...task, created_at,
\* updated_at }, the payload's own fields as the caller gave them.
CreatedRecord(id, task) ==
    [kind |-> "created",
     task_id |-> id,
     title |-> task.title,
     description |-> task.description,
     due_date |-> task.due_date,
     priority |-> task.priority,
     status |-> task.status,
     created_at |-> clock,
     updated_at |-> clock]

createTask(task) ==
    /\ Callable
    /\ seq < MaxId
    /\ LET errors == validateTask(task)
           id == NextRowId
           row == InsertedRow(id, task)
           stored == isConnected /\ errors = <<>> /\ Usable /\ RowAccepted(row)
       IN  /\ last' =
                IF ~isConnected
                  THEN Rejected("createTask", 0, task, FALSE, "Database not connected")
                ELSE IF errors # <<>>
                  THEN Settled("createTask", 0, task, FALSE, FALSE,
                               "Validation failed", errors, NoValue)
                ELSE IF ~stored
                  THEN Rejected("createTask", 0, task, TRUE, "storage")
                ELSE Resolved("createTask", id, task, CreatedRecord(id, task))
           /\ tasks' = IF stored
                         THEN [i \in DOMAIN tasks \cup {id} |->
                                 IF i = id THEN row ELSE tasks[i]]
                         ELSE tasks
           /\ seq' = IF stored THEN id ELSE seq
           /\ returned' = IF stored THEN returned \cup {id} ELSE returned
    /\ UNCHANGED <<db, isConnected, connectState, closeState, tableExists, clock>>

\* The rows "WHERE task_id = ?" selects.
Selected(taskId) == {i \in DOMAIN tasks : i = taskId}

getTask(taskId) ==
    /\ Callable
    /\ last' =
         IF ~isConnected
           THEN Rejected("getTask", taskId, NoTask, FALSE, "Database not connected")
         ELSE IF ~Usable
           THEN Rejected("getTask", taskId, NoTask, TRUE, "storage")
         ELSE IF Selected(taskId) = {}
           THEN Rejected("getTask", taskId, NoTask, TRUE, "not found")
         ELSE Resolved("getTask", taskId, NoTask,
                       [kind |-> "row", row |-> tasks[taskId]])
    /\ UNCHANGED <<db, isConnected, connectState, closeState, tableExists, tasks,
                   seq, clock, returned>>

\* The columns the dynamic UPDATE sets: those whose field is not undefined.
UpdateFields(updates) == {f \in Columns : updates[f] # Undef}

\* An UPDATE that sets every column, as the INSERT of createTask does: a
\* column the payload does not give falls back to NULL or its default.
UpdatedRowReplacing(row, updates) ==
    [task_id |-> row.task_id,
     title |-> Str(trim(updates.title.v)),
     description |-> OrElse(updates.description, Null),
     due_date |-> OrElse(updates.due_date, Null),
     priority |-> OrElse(updates.priority, Str("medium")),
     status |-> OrElse(updates.status, Str("pending")),
     created_at |-> row.created_at,
     updated_at |-> clock]

\* The row after "UPDATE tasks SET <fields>, updated_at = CURRENT_TIMESTAMP".
UpdatedRow(row, updates) ==
    [task_id |-> row.task_id,
     title |-> IF updates.title # Undef
                 THEN Str(trim(updates.title.v)) ELSE row.title,
     description |-> IF updates.description # Undef
                       THEN updates.description ELSE row.description,
     due_date |-> IF updates.due_date # Undef
                    THEN updates.due_date ELSE row.due_date,
     priority |-> IF updates.priority # Undef
                    THEN updates.priority ELSE row.priority,
     status |-> IF updates.status # Undef
                  THEN updates.status ELSE row.status,
     created_at |-> row.created_at,
     updated_at |-> clock]

\* The test of this.changes left out.
NoRowChangedUnchecked(changes) == FALSE

\* this.changes === 0: the statement changed no row.
NoRowChanged(changes) == changes = 0

updateTask(taskId, updates) ==
    /\ Callable
    /\ LET errors == validateTask(updates)
           rows == Selected(taskId)
           issued == isConnected /\ errors = <<>> /\ UpdateFields(updates) # {}
           ran == /\ issued /\ Usable
                  /\ \A i \in rows : RowAccepted(UpdatedRow(tasks[i], updates))
           changes == Cardinality(rows)
       IN  /\ last' =
                IF ~isConnected
                  THEN Rejected("updateTask", taskId, updates, FALSE,
                                "Database not connected")
                ELSE IF errors # <<>>
                  THEN Settled("updateTask", taskId, updates, FALSE, FALSE,
                               "Validation failed", errors, NoValue)
                ELSE IF UpdateFields(updates) = {}
                  THEN Rejected("updateTask", taskId, updates, FALSE,
                                "No valid fields to update")
                ELSE IF ~ran
                  THEN Rejected("updateTask", taskId, updates, TRUE, "storage")
                ELSE IF NoRowChanged(changes)
                  THEN Rejected("updateTask", taskId, updates, TRUE, "not found")
                ELSE Resolved("updateTask", taskId, updates,
                              [kind |-> "updated", task_id |-> taskId,
                               changes |-> changes])
           /\ tasks' = IF ran
                         THEN [i \in DOMAIN tasks |->
                                 IF i \in rows
                                   THEN Trigger([tasks EXCEPT
                                                   ![i] = UpdatedRow(tasks[i], updates)],
                                                i)[i]
                                   ELSE tasks[i]]
                         ELSE tasks
    /\ UNCHANGED <<db, isConnected, connectState, closeState, tableExists, seq,
                   clock, returned>>

deleteTask(taskId) ==
    /\ Callable
    /\ LET rows == Selected(taskId)
           ran == isConnected /\ Usable
           changes == Cardinality(rows)
       IN  /\ last' =
                IF ~isConnected
                  THEN Rejected("deleteTask", taskId, NoTask, FALSE,
                                "Database not connected")
                ELSE IF ~ran
                  THEN Rejected("deleteTask", taskId, NoTask, TRUE, "storage")
                ELSE IF NoRowChanged(changes)
                  THEN Rejected("deleteTask", taskId, NoTask, TRUE, "not found")
                ELSE Resolved("deleteTask", taskId, NoTask,
                              [kind |-> "deleted", task_id |-> taskId, deleted |-> TRUE])
           /\ tasks' = IF ran
                         THEN [i \in DOMAIN tasks \ rows |-> tasks[i]]
                         ELSE tasks
    /\ UNCHANGED <<db, isConnected, connectState, closeState, tableExists, seq,
                   clock, returned>>

(***************************************************************************)
(* The reading operations.                                                 *)
(***************************************************************************)
NoFilters == [status |-> Undef, priority |-> Undef, due_date_from |-> Undef,
              due_date_to |-> Undef, limit |-> Undef]

\* The WHERE clause getAllTasks builds: a falsy filter adds no condition, and
\* a comparison with a NULL column is not true.
Matches(row, filters) ==
    /\ Truthy(filters.status) => row.status = filters.status
    /\ Truthy(filters.priority) => row.priority = filters.priority
    /\ Truthy(filters.due_date_from) =>
          /\ row.due_date # Null
          /\ TextRank(row.due_date.v) >= TextRank(filters.due_date_from.v)
    /\ Truthy(filters.due_date_to) =>
          /\ row.due_date # Null
          /\ TextRank(row.due_date.v) <= TextRank(filters.due_date_to.v)

\* ORDER BY created_at DESC: every order of the ids with created_at not
\* increasing (SQL leaves the order of equal keys open).
OrderedByCreatedDesc(ids) ==
    {o \in [1..Cardinality(ids) -> ids] :
        /\ \A i, j \in 1..Cardinality(ids) : i # j => o[i] # o[j]
        /\ \A i, j \in 1..Cardinality(ids) :
              i < j => tasks[o[i]].created_at >= tasks[o[j]].created_at}

\* LIMIT ?, which the code adds only for a truthy limit; a negative LIMIT
\* is no limit.
Limited(order, limit) ==
    IF Truthy(limit) /\ limit.v >= 0 /\ limit.v < Len(order)
      THEN SubSeq(order, 1, limit.v) ELSE order

RowsOf(order) == [i \in 1..Len(order) |-> tasks[order[i]]]

getAllTasks(filters) ==
    /\ Callable
    /\ \E order \in OrderedByCreatedDesc({i \in DOMAIN tasks : Matches(tasks[i], filters)}) :
         last' =
           IF ~isConnected
             THEN Rejected("getAllTasks", 0, NoTask, FALSE, "Database not connected")
           ELSE IF ~Usable
             THEN Rejected("getAllTasks", 0, NoTask, TRUE, "storage")
           ELSE Resolved("getAllTasks", 0, NoTask,
                         [kind |-> "rows", filters |-> filters,
                          rows |-> RowsOf(Limited(order, filters.limit))])
    /\ UNCHANGED <<db, isConnected, connectState, closeState, tableExists, tasks,
                   seq, clock, returned>>

\* SUM(CASE WHEN ... THEN 1 ELSE 0 END) with the rows of ids counting 1: the
\* SUM over no rows is NULL.
SumOfCases(ids) == IF DOMAIN tasks = {} THEN Null ELSE Num(Cardinality(ids))

StatsRow ==
    [kind |-> "stats",
     total_tasks |-> Num(Cardinality(DOMAIN tasks)),
     pending_tasks |->
        SumOfCases({i \in DOMAIN tasks : tasks[i].status = Str("pending")}),
     completed_tasks |->
        SumOfCases({i \in DOMAIN tasks : tasks[i].status = Str("completed")}),
     high_priority_tasks |->
        SumOfCases({i \in DOMAIN tasks : tasks[i].priority = Str("high")}),
     due_today |->
        SumOfCases({i \in DOMAIN tasks : tasks[i].due_date = Str(Today)})]

getTaskStats ==
    /\ Callable
    /\ last' =
         IF ~isConnected
           THEN Rejected("getTaskStats", 0, NoTask, FALSE, "Database not connected")
         ELSE IF ~Usable
           THEN Rejected("getTaskStats", 0, NoTask, TRUE, "storage")
         ELSE Resolved("getTaskStats", 0, NoTask, StatsRow)
    /\ UNCHANGED <<db, isConnected, connectState, closeState, tableExists, tasks,
                   seq, clock, returned>>

\* LIKE folds the case of the ASCII letters.
Fold(c) == IF c = "A" THEN "a" ELSE IF c = "B" THEN "b" ELSE c

\* text LIKE pattern: % stands for any run of characters, _ for any one.
RECURSIVE Like(_, _)
Like(pattern, text) ==
    IF pattern = <<>> THEN text = <<>>
    ELSE IF Head(pattern) = "%"
      THEN \E k \in 0..Len(text) :
              Like(Tail(pattern), SubSeq(text, k + 1, Len(text)))
    ELSE /\ text # <<>>
         /\ Head(pattern) = "_" \/ Fold(Head(pattern)) = Fold(Head(text))
         /\ Like(Tail(pattern), Tail(text))

searchPattern(searchTerm) == <<"%">> \o trim(searchTerm.v) \o <<"%">>

\* WHERE title LIKE ? OR description LIKE ?
Found(row, pattern) ==
    \/ row.title # Null /\ Like(pattern, row.title.v)
    \/ row.description # Null /\ Like(pattern, row.description.v)

\* The test of the term without its trim(): a blank term passes.
TermRequiredUntrimmed(searchTerm) == ~Truthy(searchTerm)

\* !searchTerm || searchTerm.trim().length === 0
TermRequired(searchTerm) ==
    ~Truthy(searchTerm) \/ Len(trim(searchTerm.v)) = 0

searchTasks(searchTerm) ==
    /\ Callable
    /\ LET required == TermRequired(searchTerm)
           call == [term |-> searchTerm]
           hits == IF isConnected /\ ~required /\ Usable
                     THEN {i \in DOMAIN tasks : Found(tasks[i], searchPattern(searchTerm))}
                     ELSE {}
       IN  \E order \in OrderedByCreatedDesc(hits) :
             last' =
               IF ~isConnected
                 THEN Rejected("searchTasks", 0, call, FALSE, "Database not connected")
               ELSE IF required
                 THEN Rejected("searchTasks", 0, call, FALSE, "Search term is required")
               ELSE IF ~Usable
                 THEN Rejected("searchTasks", 0, call, TRUE, "storage")
               ELSE Resolved("searchTasks", 0, call,
                             [kind |-> "rows", term |-> searchTerm,
                              rows |-> RowsOf(order)])
    /\ UNCHANGED <<db, isConnected, connectState, closeState, tableExists, tasks,
                   seq, clock, returned>>

(***************************************************************************)
(* ProjectFlowIntegration.  A call is a chain of steps, one for each store *)
(* operation it awaits and one for what it does once the last has come     *)
(* back; the steps of other callers come between them.                     *)
(***************************************************************************)
\* The variables of the store.
svars == <<db, isConnected, connectState, closeState, tableExists, tasks, seq,
           clock, last, returned>>

\* initialize(): connect() has resolved and isInitialized is set.  When
\* connect() rejects initialize() throws and isInitialized stays as it is.
initialize ==
    /\ connectState = "resolved"
    /\ ~isInitialized
    /\ isInitialized' = TRUE
    /\ UNCHANGED <<svars, snapshot, calls>>

\* Keeping every status as it is given.
convertToDbFormatKeepingStatus(projectFlowTask) ==
    [title |-> projectFlowTask.title,
     description |-> OrElse(projectFlowTask.description, Str(<<>>)),
     due_date |-> OrElse(projectFlowTask.dueDate, Null),
     priority |-> OrElse(projectFlowTask.priority, Str("medium")),
     status |-> projectFlowTask.status]

convertToDbFormat(projectFlowTask) ==
    [title |-> projectFlowTask.title,
     description |-> OrElse(projectFlowTask.description, Str(<<>>)),
     due_date |-> OrElse(projectFlowTask.dueDate, Null),
     priority |-> OrElse(projectFlowTask.priority, Str("medium")),
     status |-> IF projectFlowTask.status = Str("completed")
                  THEN Str("completed") ELSE Str("pending")]

\* `task-${task_id}`
TaskIdOf(n) == Str(<<"task-", n>>)

\* parseInt(taskId.replace('task-', '')) for an id made as TaskIdOf makes it.
numericId(taskId) == Head(Tail(taskId.v))

\* created_at as SQLite gives it has no 'T': split('T')[0] is all of it.
convertToProjectFlowFormat(dbTask) ==
    [id |-> TaskIdOf(dbTask.task_id),
     title |-> dbTask.title,
     description |-> OrElse(dbTask.description, Str(<<>>)),
     projectId |-> "default-project",
     priority |-> dbTask.priority,
     status |-> IF dbTask.status = Str("completed") THEN Str("completed")
                ELSE IF dbTask.status = Str("pending") THEN Str("todo")
                ELSE Str("in-progress"),
     dueDate |-> dbTask.due_date,
     createdDate |-> Str(dbTask.created_at)]

Converted(rows) == [k \in 1..Len(rows) |-> convertToProjectFlowFormat(rows[k])]

\* JSON.stringify and JSON.parse: the item is a string, and the values of
\* the model (strings, numbers, null, and fields left out for undefined)
\* are read back from it as they were written.
JSONstringify(entries) == [t |-> "string", v |-> entries]

JSONparse(item) == item.v

\* A call begins, and a call settles: its locals go, its outcome stays.
Begun(op, id, data) == [Idle EXCEPT !.op = op, !.id = id, !.data = data]

Thrown(call, err) ==
    [call EXCEPT !.pc = "idle", !.rows = <<>>, !.ok = FALSE, !.err = err]

Returned(call) ==
    [call EXCEPT !.pc = "idle", !.rows = <<>>, !.ok = TRUE, !.err = ""]

\* Returning once the store operation has, without syncToLocalStorage().
ThenSyncSkipped(call) ==
    IF last'.ok THEN Returned(call) ELSE Thrown(call, last'.err)

\* What follows an awaited store operation that syncToLocalStorage() comes
\* after: on to it, or the call throws the store's error.
ThenSync(call) == IF last'.ok THEN [call EXCEPT !.pc = "pull"] ELSE Thrown(call, last'.err)

\* What follows the getAllTasks() of syncToLocalStorage(): its rows are
\* held until its callback runs.
ThenWrite(call) ==
    IF last'.ok THEN [call EXCEPT !.pc = "write", !.rows = last'.value.rows]
    ELSE Thrown(call, last'.err)

\* syncToLocalStorage(), called by itself: the statement of getAllTasks().
syncToLocalStorage(c) ==
    /\ calls[c].pc = "idle"
    /\ IF isInitialized
         THEN /\ getAllTasks(NoFilters)
              /\ calls' = [calls EXCEPT
                             ![c] = ThenWrite(Begun("syncToLocalStorage", 0, NoData))]
         ELSE /\ UNCHANGED svars
              /\ calls' = [calls EXCEPT
                             ![c] = Thrown(Begun("syncToLocalStorage", 0, NoData),
                                           "Database not initialized")]
    /\ UNCHANGED <<isInitialized, snapshot>>

\* syncToLocalStorage() at the end of createTask, updateTask and deleteTask:
\* the statement of getAllTasks().
syncRead(c) ==
    /\ calls[c].pc = "pull"
    /\ getAllTasks(NoFilters)
    /\ calls' = [calls EXCEPT ![c] = ThenWrite(calls[c])]
    /\ UNCHANGED <<isInitialized, snapshot>>

\* Merging the entries into the snapshot instead of replacing it.
SetItemMerging(entries) ==
    IF snapshot = Null THEN JSONstringify(entries)
    ELSE JSONstringify(JSONparse(snapshot) \o entries)

\* localStorage.setItem('projectflow_tasks', JSON.stringify(...))
SetItem(entries) == JSONstringify(entries)

\* The callback of that getAllTasks(): the rows are converted, the snapshot
\* is replaced and the call returns.
syncWrite(c) ==
    /\ calls[c].pc = "write"
    /\ snapshot' = SetItem(Converted(calls[c].rows))
    /\ calls' = [calls EXCEPT ![c] = Returned(calls[c])]
    /\ UNCHANGED <<svars, isInitialized>>

\* syncFromLocalStorage(): the snapshot is read and parsed; without one, or
\* with an empty one, the call returns.
syncFromLocalStorage(c) ==
    /\ calls[c].pc = "idle"
    /\ LET call == Begun("syncFromLocalStorage", 0, NoData)
       IN  calls' = [calls EXCEPT ![c] =
              IF ~isInitialized THEN Thrown(call, "Database not initialized")
              ELSE IF snapshot = Null THEN Returned(call)
              ELSE IF JSONparse(snapshot) = <<>>
                THEN Returned([call EXCEPT !.entries = JSONparse(snapshot)])
              ELSE [call EXCEPT !.pc = "push", !.entries = JSONparse(snapshot),
                                !.i = 1]]
    /\ UNCHANGED <<svars, isInitialized, snapshot>>

\* A failed entry ends the loop and the call throws its error.
EntryDoneOrThrown(call) ==
    IF ~last'.ok THEN Thrown(call, last'.err)
    ELSE IF call.i > Len(call.entries) THEN Returned(call) ELSE call

\* The entry is done, created or not (its error is caught and logged): on
\* to the next entry, or the call returns after the last.
EntryDone(call) ==
    IF call.i > Len(call.entries) THEN Returned(call) ELSE call

\* One turn of its loop: createTask for the entry.
syncEntry(c) ==
    /\ calls[c].pc = "push"
    /\ createTask(convertToDbFormat(calls[c].entries[calls[c].i]))
    /\ calls' = [calls EXCEPT ![c] =
                   EntryDone([calls[c] EXCEPT
                                !.log = Append(@, IF last'.ok THEN last'.id ELSE 0),
                                !.i = @ + 1])]
    /\ UNCHANGED <<isInitialized, snapshot>>

\* The createTask of the adapter, up to the callback of the store's.
adapterCreateTask(c, taskData) ==
    /\ calls[c].pc = "idle"
    /\ LET call == Begun("createTask", 0, taskData)
       IN  IF isInitialized
             THEN /\ createTask(convertToDbFormat(taskData))
                  /\ calls' = [calls EXCEPT ![c] = ThenSync(call)]
             ELSE /\ UNCHANGED svars
                  /\ calls' = [calls EXCEPT
                                 ![c] = Thrown(call, "Database not initialized")]
    /\ UNCHANGED <<isInitialized, snapshot>>

\* const dbUpdates = this.convertToDbFormat(updates)
dbUpdates(updates) == convertToDbFormat(updates)

\* The updateTask of the adapter, up to the callback of the store's.
adapterUpdateTask(c, taskId, updates) ==
    /\ calls[c].pc = "idle"
    /\ LET call == Begun("updateTask", numericId(taskId), updates)
       IN  IF isInitialized
             THEN /\ updateTask(numericId(taskId), dbUpdates(updates))
                  /\ calls' = [calls EXCEPT ![c] = ThenSync(call)]
             ELSE /\ UNCHANGED svars
                  /\ calls' = [calls EXCEPT
                                 ![c] = Thrown(call, "Database not initialized")]
    /\ UNCHANGED <<isInitialized, snapshot>>

\* The deleteTask of the adapter, up to the callback of the store's.
adapterDeleteTask(c, taskId) ==
    /\ calls[c].pc = "idle"
    /\ LET call == Begun("deleteTask", numericId(taskId), NoData)
       IN  IF isInitialized
             THEN /\ deleteTask(numericId(taskId))
                  /\ calls' = [calls EXCEPT ![c] = ThenSync(call)]
             ELSE /\ UNCHANGED svars
                  /\ calls' = [calls EXCEPT
                                 ![c] = Thrown(call, "Database not initialized")]
    /\ UNCHANGED <<isInitialized, snapshot>>

(***************************************************************************)
(* The callers of the model: the values they pass.                         *)
(***************************************************************************)
Text(s) == Str(s)

Payload(title, description, due_date, priority, status) ==
    [title |-> title, description |-> description, due_date |-> due_date,
     priority |-> priority, status |-> status]

Ids == 1..MaxId

\* A title to trim, a status alone, a null priority and two rules violated
\* at once.
CorePayloads ==
    { Payload(Text(<<" ", "a", " ">>), Undef, Undef, Undef, Undef),
      Payload(Undef, Undef, Undef, Undef, Str("completed")),
      Payload(Text(<<" ", "a", " ">>), Undef, Undef, Null, Undef),
      Payload(Text(<<>>), Undef, Undef, Str("urgent"), Undef) }

CoreFilters ==
    { NoFilters,
      [NoFilters EXCEPT !.priority = Str("medium")],
      [NoFilters EXCEPT !.limit = Num(1)] }

CoreTerms == { Undef, Text(<<"a">>) }

\* The operations that write, and getTask to read a row back.
\* They are made by callers of the store itself: the adapter stays as it is.
Writes(payloads) ==
    \/ \E task \in payloads : createTask(task) /\ UNCHANGED avars
    \/ \E id \in Ids : getTask(id) /\ UNCHANGED avars
    \/ \E id \in Ids, updates \in payloads :
          updateTask(id, updates) /\ UNCHANGED avars
    \/ \E id \in Ids : deleteTask(id) /\ UNCHANGED avars

Reads(filters, terms) ==
    \/ \E f \in filters : getAllTasks(f) /\ UNCHANGED avars
    \/ getTaskStats /\ UNCHANGED avars
    \/ \E term \in terms : searchTasks(term) /\ UNCHANGED avars

StoreOps(payloads, filters, terms) == Writes(payloads) \/ Reads(filters, terms)

\* connect() and its callbacks, with the failures of the set errs.
Connecting(errs) ==
    \/ \E threw \in errs : connect(threw) /\ UNCHANGED avars
    \/ \E err \in errs, readThrew \in errs :
          connectOpened(err, readThrew) /\ UNCHANGED avars
    \/ \E err \in errs : execRuns(err) /\ UNCHANGED avars
    \/ execCallback /\ UNCHANGED avars

Closing ==
    \/ close /\ UNCHANGED avars
    \/ \E err \in BOOLEAN : closeRuns(err) /\ UNCHANGED avars
    \/ closeCallback /\ UNCHANGED avars

\* Time passes.
Passing == Tick /\ UNCHANGED avars

\* A store that is connected once and used while time passes.
Next ==
    \/ Connecting({FALSE})
    \/ Passing
    \/ StoreOps(CorePayloads, CoreFilters, CoreTerms)

Spec == Init /\ [][Next]_vars

\* The whole life of the connection, and every operation at each point of it.
LifePayloads == { Payload(Text(<<" ", "a", " ">>), Undef, Undef, Undef, Undef) }

NextLifecycle ==
    \/ Connecting(BOOLEAN)
    \/ Closing
    \/ StoreOps(LifePayloads, {NoFilters}, {Text(<<"a">>)})

SpecLifecycle == Init /\ [][NextLifecycle]_vars

\* Titles at the edges of validateTask: missing, empty, blank, padded, of
\* the longest length allowed, one longer, and padded to one longer.
TitleInputs ==
    { Undef, Null, Text(<<>>), Text(<<" ">>), Text(<<" ", "a", " ">>),
      Text(Rep("a", TitleLimit)), Text(Rep("a", TitleLimit + 1)),
      Text(<<" ">> \o Rep("a", TitleLimit)) }

TitlePayloads == { Payload(t, Undef, Undef, Undef, Undef) : t \in TitleInputs }

NextTitles ==
    \/ Connecting({FALSE})
    \/ StoreOps(TitlePayloads, {NoFilters}, {Text(<<"a">>)})

SpecTitles == Init /\ [][NextTitles]_vars

\* A payload giving every field, and one giving a title, a null description
\* and a priority.
FramePayloads ==
    { Payload(Text(<<" ", "a", " ">>), Text(<<"d">>), Str("2025-01-20"),
              Str("low"), Str("completed")),
      Payload(Text(<<"b">>), Null, Undef, Str("high"), Undef) }

NextFrame ==
    \/ Connecting({FALSE})
    \/ Passing
    \/ Writes(FramePayloads)

SpecFrame == Init /\ [][NextFrame]_vars

\* A valid payload, an empty one, and payloads that violate four rules, two
\* rules beside a valid title, and two rules without a title.
ValidationPayloads ==
    { Payload(Text(<<" ", "a", " ">>), Undef, Undef, Undef, Undef),
      NoTask,
      Payload(Text(<<>>), Undef, Str("soon"), Str("urgent"), Str("done")),
      Payload(Text(<<"a">>), Undef, Undef, Str("urgent"), Str("done")),
      Payload(Undef, Undef, Str("soon"), Undef, Str("done")) }

NextValidation ==
    \/ Connecting({FALSE})
    \/ Passing
    \/ Writes(ValidationPayloads)

SpecValidation == Init /\ [][NextValidation]_vars

\* Tasks with an ISO due date, with a due date written month first and
\* without one; filters on each column, on both, and limits.
FilterPayloads ==
    { Payload(Text(<<"a">>), Undef, Str("2025-01-20"), Str("high"), Str("completed")),
      Payload(Text(<<"b">>), Undef, Str("03/01/2025"), Undef, Undef),
      Payload(Text(<<"c">>), Undef, Undef, Undef, Undef) }

FilterSets ==
    { NoFilters,
      [NoFilters EXCEPT !.status = Str("pending")],
      [NoFilters EXCEPT !.status = Str("pending"), !.priority = Str("high")],
      [NoFilters EXCEPT !.due_date_from = Str("2025-01-20")],
      [NoFilters EXCEPT !.due_date_to = Str("2025-02-15")],
      [NoFilters EXCEPT !.limit = Num(0)],
      [NoFilters EXCEPT !.limit = Num(1)] }

NextFilters ==
    \/ Connecting({FALSE})
    \/ Passing
    \/ \E task \in FilterPayloads : createTask(task) /\ UNCHANGED avars
    \/ \E id \in Ids : deleteTask(id) /\ UNCHANGED avars
    \/ \E f \in FilterSets : getAllTasks(f) /\ UNCHANGED avars

SpecFilters == Init /\ [][NextFilters]_vars

\* Tasks to find by title and by description, and terms: missing, empty,
\* blank, plain, padded, of the other case, and the wildcards of LIKE.
SearchPayloads ==
    { Payload(Text(<<"a", "b">>), Undef, Undef, Undef, Undef),
      Payload(Text(<<"c">>), Text(<<"x", "A">>), Undef, Undef, Undef),
      Payload(Text(<<"c">>), Undef, Undef, Undef, Undef) }

SearchTerms ==
    { Undef, Text(<<>>), Text(<<" ">>), Text(<<"a">>), Text(<<" ", "a", " ">>),
      Text(<<"B">>), Text(<<"_">>), Text(<<"%">>) }

NextSearch ==
    \/ Connecting({FALSE})
    \/ \E task \in SearchPayloads : createTask(task) /\ UNCHANGED avars
    \/ \E id \in Ids : deleteTask(id) /\ UNCHANGED avars
    \/ \E term \in SearchTerms : searchTasks(term) /\ UNCHANGED avars

SpecSearch == Init /\ [][NextSearch]_vars

\* Tasks to count: with the defaults, of high priority and completed, and
\* an update that gives a null status.
StatsPayloads ==
    { Payload(Text(<<"a">>), Undef, Undef, Undef, Undef),
      Payload(Text(<<"b">>), Undef, Undef, Str("high"), Str("completed")),
      Payload(Text(<<"a">>), Undef, Undef, Undef, Null) }

NextStats ==
    \/ Connecting({FALSE})
    \/ Writes(StatsPayloads)
    \/ getTaskStats /\ UNCHANGED avars

SpecStats == Init /\ [][NextStats]_vars

\* The tasks of ProjectFlow the adapter is given: one in progress, one with
\* every field, one with a title alone, one without a title and one to do.
Data(title, description, dueDate, priority, status) ==
    [title |-> title, description |-> description, dueDate |-> dueDate,
     priority |-> priority, status |-> status]

AdapterData ==
    { Data(Text(<<"a">>), Undef, Undef, Undef, Str("in-progress")),
      Data(Text(<<"b">>), Text(<<"d">>), Str("2025-01-20"), Str("high"),
           Str("completed")),
      Data(Text(<<"c">>), Undef, Undef, Undef, Undef),
      Data(Undef, Undef, Undef, Undef, Str("todo")),
      Data(Text(<<"a">>), Undef, Undef, Undef, Str("todo")) }

\* An entry the application itself put into the snapshot.
Entry(n, title, status) ==
    [id |-> TaskIdOf(n), title |-> title, description |-> Str(<<>>),
     projectId |-> "default-project", priority |-> Str("medium"),
     status |-> status, dueDate |-> Null, createdDate |-> Str(0)]

\* No snapshot, and one that holds a task the store does not.
StaleSnapshots ==
    { Null, JSONstringify(<<Entry(7, Text(<<"z">>), Str("todo"))>>) }

\* The adapter with one caller, whose calls come one at a time.
InitAdapter ==
    /\ InitStore
    /\ isInitialized = FALSE
    /\ snapshot \in StaleSnapshots
    /\ calls = [c \in Callers |-> Idle]

Syncing(callers) ==
    \/ \E c \in callers : syncRead(c)
    \/ \E c \in callers : syncWrite(c)

NextAdapter ==
    \/ Connecting({FALSE})
    \/ initialize
    \/ \E taskData \in AdapterData : adapterCreateTask("A", taskData)
    \/ \E id \in Ids, updates \in AdapterData :
          adapterUpdateTask("A", TaskIdOf(id), updates)
    \/ \E id \in Ids : adapterDeleteTask("A", TaskIdOf(id))
    \/ syncToLocalStorage("A")
    \/ Syncing({"A"})

SpecAdapter == InitAdapter /\ [][NextAdapter]_vars

\* Snapshots to import: none, an empty one, one of a task without a title
\* and a task in progress, and one of a task in progress, a task without a
\* title and a completed task.
ImportSnapshots ==
    { Null,
      JSONstringify(<<>>),
      JSONstringify(<<Entry(8, Undef, Str("todo")),
                      Entry(7, Text(<<"a">>), Str("in-progress"))>>),
      JSONstringify(<<Entry(7, Text(<<"a">>), Str("in-progress")),
                      Entry(8, Undef, Str("todo")),
                      Entry(9, Text(<<"b">>), Str("completed"))>>) }

InitImport ==
    /\ InitStore
    /\ isInitialized = FALSE
    /\ snapshot \in ImportSnapshots
    /\ calls = [c \in Callers |-> Idle]

\* The adapter importing and exporting, its calls made one at a time.
NextImport ==
    \/ Connecting({FALSE})
    \/ initialize
    \/ syncFromLocalStorage("A")
    \/ syncEntry("A")
    \/ syncToLocalStorage("A")
    \/ syncWrite("A")
    \/ \E id \in Ids : adapterDeleteTask("A", TaskIdOf(id))
    \/ syncRead("A")

SpecImport == InitImport /\ [][NextImport]_vars

\* Two callers of one store.  A reads a task and then updates it: getTask,
\* and, once that has come back with the task, updateTask.
editGet(c, taskId) ==
    /\ calls[c].pc = "idle"
    /\ getTask(taskId)
    /\ calls' = [calls EXCEPT ![c] =
                   IF last'.ok THEN [Begun("edit", taskId, NoData) EXCEPT !.pc = "fetched"]
                   ELSE Thrown(Begun("edit", taskId, NoData), last'.err)]
    /\ UNCHANGED <<isInitialized, snapshot>>

editUpdate(c, updates) ==
    /\ calls[c].pc = "fetched"
    /\ updateTask(calls[c].id, updates)
    /\ calls' = [calls EXCEPT ![c] =
                   IF last'.ok THEN Returned(calls[c]) ELSE Thrown(calls[c], last'.err)]
    /\ UNCHANGED <<isInitialized, snapshot>>

\* B deletes a task.
remove(c, taskId) ==
    /\ calls[c].pc = "idle"
    /\ deleteTask(taskId)
    /\ calls' = [calls EXCEPT ![c] =
                   IF last'.ok THEN Returned(Begun("deleteTask", taskId, NoData))
                   ELSE Thrown(Begun("deleteTask", taskId, NoData), last'.err)]
    /\ UNCHANGED <<isInitialized, snapshot>>

SharedPayloads ==
    { Payload(Text(<<"a">>), Undef, Undef, Undef, Undef),
      Payload(Text(<<"b">>), Undef, Undef, Undef, Str("completed")) }

NextShared ==
    \/ Connecting({FALSE})
    \/ \E task \in SharedPayloads : createTask(task) /\ UNCHANGED avars
    \/ \E id \in Ids : editGet("A", id)
    \/ \E updates \in SharedPayloads : editUpdate("A", updates)
    \/ \E id \in Ids : remove("B", id)

SpecShared == Init /\ [][NextShared]_vars

\* Two callers of the adapter, whose calls may be in flight together: each
\* await of a call is a point where the other caller's steps come between.
RaceData ==
    { Data(Text(<<"a">>), Undef, Undef, Undef, Str("todo")),
      Data(Text(<<"b">>), Undef, Undef, Undef, Str("completed")) }

InitRace ==
    /\ InitStore
    /\ isInitialized = FALSE
    /\ snapshot = Null
    /\ calls = [c \in Callers |-> Idle]

NextRace ==
    \/ Connecting({FALSE})
    \/ initialize
    \/ \E c \in Callers, taskData \in RaceData : adapterCreateTask(c, taskData)
    \/ \E c \in Callers, id \in Ids, updates \in RaceData :
          adapterUpdateTask(c, TaskIdOf(id), updates)
    \/ \E c \in Callers, id \in Ids : adapterDeleteTask(c, TaskIdOf(id))
    \/ Syncing(Callers)

SpecRace == InitRace /\ [][NextRace]_vars

(***************************************************************************)
(* Properties of the store.                                                *)
(***************************************************************************)
\* The call was made on a store whose connect() had resolved and on which
\* close() had not been called.
Connected(call) == call.at = <<"resolved", "idle">>

\* The step is a store operation: only those write last and tasks.
Operated == <<last, tasks>>' # <<last, tasks>>

\* C1: updateTask(id, updates) on an existing task, where updates holds a
\* valid status and nothing else, resolves, and the row then shows that
\* status.
C1_StatusOnlyUpdateSucceeds ==
    ( /\ last.op = "updateTask"
      /\ Connected(last)
      /\ last.id \in DOMAIN tasks
      /\ last.task.status.t = "string"
      /\ last.task.status.v \in STATUSES
      /\ \A f \in Columns \ {"status"} : last.task[f] = Undef )
    => /\ last.ok
       /\ tasks[last.id].status = last.task.status

ValidTitle(x) ==
    x.t = "string" /\ Len(trim(x.v)) > 0 /\ Len(x.v) <= TitleLimit

OmittedOrIn(x, enumeration) ==
    x = Undef \/ (x.t = "string" /\ x.v \in enumeration)

\* C2: createTask with a valid title, and priority and status each omitted
\* or of its enumeration, resolves with a record whose priority is "medium"
\* when priority was omitted and whose status is "pending" when status was.
C2_CreateReturnsDefaults ==
    ( /\ last.op = "createTask"
      /\ Connected(last)
      /\ ValidTitle(last.task.title)
      /\ OmittedOrIn(last.task.priority, PRIORITIES)
      /\ OmittedOrIn(last.task.status, STATUSES)
      /\ ~DueDateInvalid(last.task) )
    => /\ last.ok
       /\ last.task.priority = Undef => last.value.priority = Str("medium")
       /\ last.task.status = Undef => last.value.status = Str("pending")

\* C3: a store operation called before connect() has resolved or after
\* close() has been called rejects with "Database not connected" and hands
\* no statement to the driver.
C3_NotConnectedOutsideSession ==
    (last.op # "none" /\ ~Connected(last))
    => /\ ~last.ok
       /\ last.err = "Database not connected"
       /\ ~last.issued

\* C4: getTask, updateTask with a valid payload and deleteTask, called with
\* an id that has no row, reject with "not found" and leave the table as it
\* was.
C4_MissingIdNotFound ==
    [][ ( /\ Operated
          /\ last'.op \in {"getTask", "updateTask", "deleteTask"}
          /\ Connected(last')
          /\ last'.id \notin DOMAIN tasks
          /\ last'.op = "updateTask" =>
                validateTask(last'.task) = <<>> /\ UpdateFields(last'.task) # {} )
        => /\ ~last'.ok
           /\ last'.err = "not found"
           /\ tasks' = tasks ]_vars

\* getTask has found no row for the id of a task created and deleted before.
C4_Witness ==
    /\ last.op = "getTask"
    /\ last.err = "not found"
    /\ last.id \in returned
    /\ last.id \notin DOMAIN tasks

\* C5: getTask right after a createTask that resolved, on the task_id it
\* resolved with, gives a row whose title is the title of the record
\* createTask returned and whose created_at equals its updated_at.
C5_GetAfterCreate ==
    [][ ( /\ last.op = "createTask" /\ last.ok
          /\ last'.op = "getTask" /\ last'.ok
          /\ last'.id = last.value.task_id )
        => /\ last'.value.row.title = last.value.title
           /\ last'.value.row.created_at = last'.value.row.updated_at ]_vars

\* C6: an updateTask that resolves sets, on the row of its id, the columns
\* its payload gives (the title trimmed) and updated_at, and leaves task_id,
\* created_at, the columns the payload does not give and every other row as
\* they were.
C6_UpdateFrame ==
    [][ (Operated /\ last'.op = "updateTask" /\ last'.ok)
        => LET id == last'.id
               updates == last'.task
           IN  /\ DOMAIN tasks' = DOMAIN tasks
               /\ \A i \in DOMAIN tasks \ {id} : tasks'[i] = tasks[i]
               /\ tasks'[id].task_id = tasks[id].task_id
               /\ tasks'[id].created_at = tasks[id].created_at
               /\ tasks'[id].updated_at = clock
               /\ \A f \in Columns :
                     updates[f] = Undef => tasks'[id][f] = tasks[id][f]
               /\ \A f \in Columns \ {"title"} :
                     updates[f] # Undef => tasks'[id][f] = updates[f]
               /\ updates.title # Undef =>
                     tasks'[id].title = Str(trim(updates.title.v)) ]_vars

\* An update that gave no due_date has resolved on a task that has one,
\* after the second it was created in, beside another task.
C6_Witness ==
    /\ last.op = "updateTask"
    /\ last.ok
    /\ last.task.due_date = Undef
    /\ tasks[last.id].due_date # Null
    /\ tasks[last.id].updated_at > tasks[last.id].created_at
    /\ Cardinality(DOMAIN tasks) = 2

\* C7: every stored task has a priority of high, medium or low and a status
\* of pending or completed.
C7_StoredEnumerations ==
    \A i \in DOMAIN tasks :
        /\ tasks[i].priority \in {Str(x) : x \in PRIORITIES}
        /\ tasks[i].status \in {Str(x) : x \in STATUSES}

\* C8: every stored row is held under its own task_id, which createTask
\* returned, and createTask never resolves with a task_id it has resolved
\* with before, whether that task is still stored or not.
C8_IdsUniqueNeverReused ==
    /\ [](\A i \in DOMAIN tasks : tasks[i].task_id = i /\ i \in returned)
    /\ [][ (Operated /\ last'.op = "createTask" /\ last'.ok)
           => /\ last'.value.task_id \notin returned
              /\ last'.value.task_id \notin DOMAIN tasks
              /\ last'.value.task_id \in DOMAIN tasks' ]_vars

\* createTask has resolved after an earlier task was deleted.
C8_Witness ==
    /\ last.op = "createTask"
    /\ last.ok
    /\ \E j \in returned : j \notin DOMAIN tasks /\ j < last.value.task_id

\* C9: every stored task's title is a string of at least 1 and at most 255
\* characters.
C9_StoredTitleLength ==
    \A i \in DOMAIN tasks :
        /\ tasks[i].title.t = "string"
        /\ Len(tasks[i].title.v) >= 1
        /\ Len(tasks[i].title.v) <= TitleLimit

\* An update has stored a title of the longest length allowed.
C9_Witness ==
    /\ last.op = "updateTask"
    /\ last.ok
    /\ Len(tasks[last.id].title.v) = TitleLimit

ReadOps == {"getTask", "getAllTasks", "searchTasks", "getTaskStats"}

\* C10: every stored task has updated_at >= created_at, and getTask,
\* getAllTasks, searchTasks and getTaskStats leave every row as it was.
C10_UpdatedNotBeforeCreated ==
    /\ [](\A i \in DOMAIN tasks : tasks[i].updated_at >= tasks[i].created_at)
    /\ [][ (last'.op \in ReadOps /\ Operated) => tasks' = tasks ]_vars

\* A read has resolved on a table holding a task updated after the second
\* it was created in.
C10_Witness ==
    /\ last.op \in ReadOps
    /\ last.ok
    /\ \E i \in DOMAIN tasks : tasks[i].updated_at > tasks[i].created_at

\* C11: an updateTask that resolves changes the updated_at of its row, and
\* a getTask of that id that follows it shows an updated_at later than the
\* row's created_at, however soon after the creation the update was made.
C11_UpdateAdvancesUpdatedAt ==
    [][ /\ (Operated /\ last'.op = "updateTask" /\ last'.ok /\ Connected(last'))
            => tasks'[last'.id].updated_at # tasks[last'.id].updated_at
        /\ ( /\ last.op = "updateTask" /\ last.ok /\ Connected(last)
             /\ last'.op = "getTask" /\ last'.ok
             /\ last'.id = last.id )
            => last'.value.row.updated_at > last'.value.row.created_at ]_vars

\* The rules of validateTask that are about the title.
TitleRules == {"Title is required", "Title must be less than 255 characters"}

\* C12: validateTask reports a rule about the title exactly when the title
\* is missing, is empty once trimmed, or is longer than 255 characters once
\* trimmed.
C12_TitleRuleOnTrimmedLength ==
    ( /\ last.op \in {"createTask", "updateTask"}
      /\ last.err # "Database not connected" )
    => ( (\E i \in DOMAIN last.rules : last.rules[i] \in TitleRules)
         <=> \/ last.task.title.t # "string"
             \/ Len(trim(last.task.title.v)) = 0
             \/ Len(trim(last.task.title.v)) > TitleLimit )

\* The rules a payload violates, a field counting as given when it holds a
\* string.
Violated(task) ==
    {r \in {"Title is required", "Title must be less than 255 characters",
            "Priority must be high, medium, or low",
            "Status must be pending or completed",
            "Due date must be a valid date"} :
        \/ /\ r = "Title is required"
           /\ task.title.t # "string" \/ Len(trim(task.title.v)) = 0
        \/ /\ r = "Title must be less than 255 characters"
           /\ task.title.t = "string" /\ Len(trim(task.title.v)) > TitleLimit
        \/ /\ r = "Priority must be high, medium, or low"
           /\ task.priority.t = "string" /\ task.priority.v \notin PRIORITIES
        \/ /\ r = "Status must be pending or completed"
           /\ task.status.t = "string" /\ task.status.v \notin STATUSES
        \/ /\ r = "Due date must be a valid date"
           /\ task.due_date.t = "string" /\ task.due_date.v \notin ParsableDates}

\* C13: createTask and updateTask with a payload that violates rules reject
\* with one "Validation failed" error that names every rule violated, hand
\* no statement to the driver and leave the table as it was.
C13_ValidationAggregated ==
    [][ ( /\ Operated
          /\ last'.op \in {"createTask", "updateTask"}
          /\ Connected(last')
          /\ Violated(last'.task) # {} )
        => /\ ~last'.ok
           /\ last'.err = "Validation failed"
           /\ \A r \in Violated(last'.task) :
                 \E i \in DOMAIN last'.rules : last'.rules[i] = r
           /\ ~last'.issued
           /\ tasks' = tasks ]_vars

\* updateTask on a stored task has rejected naming four rules.
C13_Witness ==
    /\ last.op = "updateTask"
    /\ Connected(last)
    /\ last.id \in DOMAIN tasks
    /\ last.err = "Validation failed"
    /\ Len(last.rules) = 4

\* C14: updateTask with a payload that gives none of the columns title,
\* description, due_date, priority and status rejects with "No valid fields
\* to update".
C14_NoValidFields ==
    ( /\ last.op = "updateTask"
      /\ Connected(last)
      /\ \A f \in Columns : last.task[f] = Undef )
    => /\ ~last.ok
       /\ last.err = "No valid fields to update"

\* The row satisfies every filter that is given: status and priority equal,
\* due date on or after due_date_from and on or before due_date_to.
Satisfies(row, filters) ==
    /\ filters.status # Undef => row.status = filters.status
    /\ filters.priority # Undef => row.priority = filters.priority
    /\ filters.due_date_from # Undef =>
          /\ row.due_date # Null
          /\ DateParse(row.due_date.v) >= DateParse(filters.due_date_from.v)
    /\ filters.due_date_to # Undef =>
          /\ row.due_date # Null
          /\ DateParse(row.due_date.v) <= DateParse(filters.due_date_to.v)

\* C15: getAllTasks(filters) without a limit resolves with exactly the
\* stored tasks that satisfy every filter given, each once: all of them
\* without filters, and none (an empty array) when none satisfies them.
C15_ListReturnsMatching ==
    ( /\ last.op = "getAllTasks"
      /\ Connected(last) )
    => /\ last.ok
       /\ last.value.filters.limit = Undef =>
             /\ {last.value.rows[k] : k \in DOMAIN last.value.rows}
                  = {tasks[i] : i \in {j \in DOMAIN tasks :
                                         Satisfies(tasks[j], last.value.filters)}}
             /\ \A k, l \in DOMAIN last.value.rows :
                   k # l => last.value.rows[k] # last.value.rows[l]

\* C16: getAllTasks resolves with its records in an order of created_at
\* that never increases, and with a limit n >= 0 it resolves with the first
\* n of the matching tasks in that order: n records, or all when there are
\* fewer, none of them older than a matching task left out.
C16_OrderedAndLimited ==
    ( /\ last.op = "getAllTasks"
      /\ Connected(last)
      /\ last.ok )
    => LET rows == last.value.rows
           limit == last.value.filters.limit
           matching == {i \in DOMAIN tasks : Satisfies(tasks[i], last.value.filters)}
       IN  /\ \A k, l \in DOMAIN rows :
                 k < l => rows[k].created_at >= rows[l].created_at
           /\ (limit.t = "number" /\ limit.v >= 0) =>
                 /\ Len(rows) <= limit.v
                 /\ Len(rows) = limit.v \/ Len(rows) = Cardinality(matching)
                 /\ \A k \in DOMAIN rows : rows[k].task_id \in matching
                 /\ \A k \in DOMAIN rows, i \in matching :
                       (\A l \in DOMAIN rows : rows[l].task_id # i)
                          => rows[k].created_at >= tasks[i].created_at

\* term occurs in text, the case of letters apart.
Contains(text, term) ==
    \E k \in 0..(Len(text) - Len(term)) :
        \A j \in 1..Len(term) : Fold(text[k + j]) = Fold(term[j])

Has(row, term) ==
    \/ row.title # Null /\ Contains(row.title.v, term)
    \/ row.description # Null /\ Contains(row.description.v, term)

\* C17: searchTasks with a term that is not empty once trimmed resolves with
\* exactly the stored tasks whose title or description contains the trimmed
\* term.
C17_SearchReturnsContaining ==
    ( /\ last.op = "searchTasks"
      /\ Connected(last)
      /\ last.ok )
    => {last.value.rows[k] : k \in DOMAIN last.value.rows}
          = {tasks[i] : i \in {j \in DOMAIN tasks :
                                 Has(tasks[j], trim(last.value.term.v))}}

\* C18: searchTasks with a term that is missing, empty or blank rejects with
\* "Search term is required", hands no statement to the driver and leaves
\* the table as it was.
C18_BlankTermRejected ==
    [][ ( /\ Operated
          /\ last'.op = "searchTasks"
          /\ Connected(last')
          /\ \/ last'.task.term.t # "string"
             \/ \A j \in DOMAIN last'.task.term.v : last'.task.term.v[j] = " " )
        => /\ ~last'.ok
           /\ last'.err = "Search term is required"
           /\ ~last'.issued
           /\ tasks' = tasks ]_vars

\* A blank term has been rejected on a table that holds a task.
C18_Witness ==
    /\ last.op = "searchTasks"
    /\ Connected(last)
    /\ last.task.term = Text(<<" ">>)
    /\ last.err = "Search term is required"
    /\ DOMAIN tasks # {}

\* The number a value is in a JavaScript sum: null counts 0.
ToNumber(x) == IF x = Null THEN 0 ELSE x.v

\* C19: getTaskStats resolves with total_tasks equal to the number of stored
\* tasks and with pending_tasks + completed_tasks equal to total_tasks.
C19_StatsPartition ==
    ( /\ last.op = "getTaskStats"
      /\ Connected(last) )
    => /\ last.ok
       /\ last.value.total_tasks = Num(Cardinality(DOMAIN tasks))
       /\ ToNumber(last.value.pending_tasks) + ToNumber(last.value.completed_tasks)
             = ToNumber(last.value.total_tasks)

\* C20: getTaskStats resolves, on the empty table too, with total_tasks,
\* pending_tasks, completed_tasks and high_priority_tasks the numbers of all
\* tasks, of those pending, of those completed and of those of high
\* priority.
C20_StatsAreCounts ==
    ( /\ last.op = "getTaskStats"
      /\ Connected(last) )
    => /\ last.ok
       /\ last.value.total_tasks = Num(Cardinality(DOMAIN tasks))
       /\ last.value.pending_tasks
            = Num(Cardinality({i \in DOMAIN tasks : tasks[i].status = Str("pending")}))
       /\ last.value.completed_tasks
            = Num(Cardinality({i \in DOMAIN tasks : tasks[i].status = Str("completed")}))
       /\ last.value.high_priority_tasks
            = Num(Cardinality({i \in DOMAIN tasks : tasks[i].priority = Str("high")}))

\* The snapshot holds one entry for each stored task, its converted form,
\* and nothing else.
SnapshotIsStore ==
    /\ snapshot # Null
    /\ Len(JSONparse(snapshot)) = Cardinality(DOMAIN tasks)
    /\ {JSONparse(snapshot)[k] : k \in DOMAIN JSONparse(snapshot)}
         = {convertToProjectFlowFormat(tasks[i]) : i \in DOMAIN tasks}

\* C21: when syncToLocalStorage resolves, the snapshot holds exactly one
\* converted entry, of id task-<task_id>, for each task of the store and
\* nothing else, whatever it held before.
C21_PullReplacesSnapshot ==
    [][ ( /\ calls["A"].op = "syncToLocalStorage"
          /\ calls["A"].pc = "write"
          /\ calls'["A"].pc = "idle" /\ calls'["A"].ok )
        => /\ SnapshotIsStore'
           /\ \A k \in DOMAIN JSONparse(snapshot') :
                 \E i \in DOMAIN tasks' :
                    /\ JSONparse(snapshot')[k].id = TaskIdOf(i)
                    /\ JSONparse(snapshot')[k].title = tasks'[i].title ]_vars

\* syncToLocalStorage has resolved on a store of two tasks.
C21_Witness ==
    /\ calls["A"].op = "syncToLocalStorage"
    /\ calls["A"].pc = "idle"
    /\ calls["A"].ok
    /\ Cardinality(DOMAIN tasks) = 2
    /\ SnapshotIsStore

Mutations == {"createTask", "updateTask", "deleteTask"}

\* C22: with the calls of the adapter made one at a time, when its
\* createTask, updateTask or deleteTask resolves the snapshot is the
\* converted form of the tasks then in the store, and when the store
\* operation it makes fails, the call rejects and the snapshot is as it was.
C22_MutationKeepsSnapshot ==
    [][ /\ ( /\ calls'["A"] # calls["A"]
             /\ calls'["A"].op \in Mutations
             /\ calls'["A"].pc = "idle" /\ calls'["A"].ok )
            => SnapshotIsStore'
        /\ ( /\ calls'["A"] # calls["A"]
             /\ calls["A"].pc = "idle"
             /\ calls'["A"].op \in Mutations
             /\ last' # last /\ ~last'.ok )
            => /\ calls'["A"].pc = "idle"
               /\ ~calls'["A"].ok
               /\ snapshot' = snapshot ]_vars

\* The adapter's deleteTask has resolved and left one of two tasks.
C22_Witness ==
    /\ calls["A"].op = "deleteTask"
    /\ calls["A"].pc = "idle"
    /\ calls["A"].ok
    /\ Cardinality(DOMAIN tasks) = 1
    /\ seq = 2
    /\ SnapshotIsStore

\* C23: syncFromLocalStorage calls the store's createTask once for each
\* entry of the snapshot, in order; it goes on after an entry that fails
\* and does not reject for it, and when it resolves every entry that is
\* valid has been created.
C23_ImportGoesOn ==
    /\ []( ( /\ calls["A"].op = "syncFromLocalStorage"
             /\ calls["A"].pc = "idle"
             /\ ~calls["A"].ok )
           => calls["A"].err = "Database not initialized" )
    /\ [][ /\ ( calls["A"].pc = "push" /\ calls'["A"] # calls["A"] )
               => /\ last'.op = "createTask"
                  /\ last'.task = convertToDbFormat(calls["A"].entries[calls["A"].i])
                  /\ Len(calls'["A"].log) = calls["A"].i
                  /\ calls'["A"].pc = "idle" <=> calls["A"].i = Len(calls["A"].entries)
           /\ ( /\ calls'["A"] # calls["A"]
                /\ calls'["A"].op = "syncFromLocalStorage"
                /\ calls'["A"].pc = "idle" /\ calls'["A"].ok )
               => /\ snapshot # Null => calls'["A"].entries = JSONparse(snapshot)
                  /\ Len(calls'["A"].log) = Len(calls'["A"].entries)
                  /\ \A k \in DOMAIN calls'["A"].entries :
                        Violated(convertToDbFormat(calls'["A"].entries[k])) = {}
                           => /\ calls'["A"].log[k] \in DOMAIN tasks'
                              /\ tasks'[calls'["A"].log[k]].title
                                   = Str(trim(calls'["A"].entries[k].title.v)) ]_vars

\* syncFromLocalStorage has resolved after an entry that failed and a later
\* one that was created.
C23_Witness ==
    /\ calls["A"].op = "syncFromLocalStorage"
    /\ calls["A"].pc = "idle"
    /\ calls["A"].ok
    /\ \E k, l \in DOMAIN calls["A"].log :
          k < l /\ calls["A"].log[k] = 0 /\ calls["A"].log[l] \in DOMAIN tasks

\* C24: a task the adapter creates is stored as completed when its status
\* in ProjectFlow is completed and as pending for any other status (todo,
\* in-progress, none), and a stored status of pending or completed comes
\* back as itself from the conversion to the format of ProjectFlow and
\* back.
C24_StatusTwoBuckets ==
    /\ [](\A i \in DOMAIN tasks :
             tasks[i].status \in {Str("pending"), Str("completed")}
                => convertToDbFormat(convertToProjectFlowFormat(tasks[i])).status
                     = tasks[i].status)
    /\ [][ ( /\ calls["A"].pc = "idle"
             /\ calls'["A"] # calls["A"]
             /\ calls'["A"].op = "createTask"
             /\ isInitialized
             /\ ValidTitle(calls'["A"].data.title) )
           => /\ last'.ok
              /\ tasks'[last'.id].status
                   = IF calls'["A"].data.status = Str("completed")
                       THEN Str("completed") ELSE Str("pending") ]_vars

\* A task in progress was created and is stored as pending, beside a
\* completed one; the snapshot shows the one as todo.
C24_Witness ==
    /\ calls["A"].op = "createTask"
    /\ calls["A"].data.status = Str("in-progress")
    /\ calls["A"].pc = "idle" /\ calls["A"].ok
    /\ \E i, j \in DOMAIN tasks :
          tasks[i].status = Str("pending") /\ tasks[j].status = Str("completed")
    /\ \E k \in DOMAIN JSONparse(snapshot) : JSONparse(snapshot)[k].status = Str("todo")

C26_AdapterUpdateKeepsOmitted ==
    [][ ( /\ calls["A"].pc = "idle"
          /\ calls'["A"] # calls["A"]
          /\ calls'["A"].op = "updateTask"
          /\ last' # last /\ last'.op = "updateTask" /\ last'.ok )
        => LET id      == last'.id
               updates == calls'["A"].data
           IN  /\ updates.description = Undef
                    => tasks'[id].description = tasks[id].description
               /\ updates.dueDate = Undef
                    => tasks'[id].due_date = tasks[id].due_date
               /\ updates.priority = Undef
                    => tasks'[id].priority = tasks[id].priority
               /\ updates.status = Undef
                    => tasks'[id].status = tasks[id].status ]_vars

\* C27: when the mutations of two callers of the adapter have both resolved,
\* in flight together or not, the snapshot is the converted form of the
\* tasks in the store.
C27_SnapshotAfterBoth ==
    ( \A c \in Callers : /\ calls[c].op \in Mutations
                         /\ calls[c].pc = "idle"
                         /\ calls[c].ok )
      => SnapshotIsStore

\* C28: when connect() has rejected, for the open or for the schema, the
\* store is not connected: isConnected is false and an operation called
\* afterwards rejects with "Database not connected".
C28_RejectedConnectNotConnected ==
    /\ connectState = "rejected" => ~isConnected
    /\ (last.op # "none" /\ last.at[1] = "rejected")
         => /\ ~last.ok
            /\ last.err = "Database not connected"

\* C30: close() called on a store that was never connected, or on one that
\* has been closed already, does not fail, and close() resolved leaves
\* isConnected false.
C30_CloseSafeEverywhere ==
    /\ closeState \in {"closeErr", "rejected"} => db \notin {"null", "closed"}
    /\ closeState = "resolved" => ~isConnected

\* C29: syncFromLocalStorage stores no entry of the snapshot twice: when a
\* run of it resolves, the store holds no more tasks of a title than the
\* snapshot holds valid entries of that title, however many runs there were.
C29_ImportIdempotent ==
    [][ ( /\ calls'["A"] # calls["A"]
          /\ calls'["A"].op = "syncFromLocalStorage"
          /\ calls'["A"].pc = "idle" /\ calls'["A"].ok )
        => LET entries == calls'["A"].entries
           IN  \A k \in DOMAIN entries :
                  Violated(convertToDbFormat(entries[k])) = {}
                     => Cardinality({i \in DOMAIN tasks' :
                                       tasks'[i].title = Str(trim(entries[k].title.v))})
                          <= Cardinality({j \in DOMAIN entries :
                                            entries[j].title = entries[k].title}) ]_vars

====
